---- MODULE Spec2Model ----
(***************************************************************************)
(* Model of skyline's time service core (services/timesrv/timesrv.{h,cpp}): *)
(* the steady clock cores, the system clock cores, the shared-memory        *)
(* double-buffered publish and the context-update callbacks.                *)
(***************************************************************************)
EXTENDS Integers, Sequences, FiniteSets, TLC

(* ------------------------------ bounds --------------------------------- *)
\* util::GetTimeNs() answers k half-seconds, k in 0..MaxHalfSec
MaxHalfSec == 3
\* the contexts given as arguments are Ctx(0) .. Ctx(MaxCtx)
MaxCtx == 3
\* shared-memory publishes and ephemeral signal rounds in one run
MaxPublishes == 2
\* concurrent readers of the shared memory
NumReaders == 1
\* threads calling into the service at the same time
NumThreads == 2

(* ---------------------------- value types ------------------------------ *)
\* constant::NsInSecond, the divisor of TimeSpanType::Seconds()
NsInSecond == 10^9

HalfSecond == NsInSecond \div 2

\* the answers of util::GetTimeNs()
TimeNsValues == {k * HalfSecond : k \in 0..MaxHalfSec}

\* the arguments of SetTestOffset / SetInternalOffset
OffsetNsValues == {0 - HalfSecond, 0, HalfSecond}

\* TimeSpanType::Seconds() dividing toward minus infinity
SecondsFloor(ns) == ns \div NsInSecond

\* i64 division of C++ truncates toward zero
Seconds(ns) == IF ns >= 0 THEN ns \div NsInSecond ELSE 0 - ((0 - ns) \div NsInSecond)

FromSeconds(s) == s * NsInSecond

\* UUID::Valid
Valid(raw) == raw # 0

\* SteadyClockTimePoint{} and SystemClockContext{}
ZeroTimePoint == [timePoint |-> 0, clockSourceId |-> 0]

ZeroContext == [steadyTimePoint |-> ZeroTimePoint, offset |-> 0]

\* the i-th context given as an argument: the identifier (0 is the nil UUID),
\* the seconds and the offset are the digits of i
Ctx(i) == [steadyTimePoint |-> [timePoint |-> (i \div 2) % 2, clockSourceId |-> i % 2],
           offset |-> i \div 4]

Contexts == {Ctx(i) : i \in 0..MaxCtx}

TimePoints == {ctx.steadyTimePoint : ctx \in Contexts}

\* Result{} is success; result::Unimplemented is Result(116, 990)
Success == [module |-> 0, id |-> 0]

Unimplemented == [module |-> 116, id |-> 990]

\* ResultValue<T>: a value, or a Result that is not success
Ok(v) == [ok |-> TRUE, value |-> v, result |-> Success]

Err(r, dflt) == [ok |-> FALSE, value |-> dflt, result |-> r]

(* ------------------------------- state --------------------------------- *)
VARIABLES
    id,                 \* id[c]: the UUID of steady clock core c
    testOffset, internalOffset, rtcOffset, cachedValue,  \* StandardSteadyClockCore
    context,            \* context[c]: SystemClockCore::context of system clock core c
    automaticCorrectionEnabled,
    steadyOf,           \* steadyOf[c]: the steady clock core that system clock core c references
    derived,            \* the system clock cores built from a class that overrides the virtuals
    timeSharedMemory,   \* the TimeSharedMemoryLayout behind TimeSharedMemory
    writerContext,      \* writerContext[w]: SystemClockContextUpdateCallback::context of writer w
    rounds,             \* rounds[w]: the SignalOperationEvent() rounds writer w has made
    publishes,          \* publishes[e]: the publishes made on entry e
    prevArg,            \* prevArg[w]: the argument of the previous UpdateContext call on w
    halted,             \* the process has trapped
    writer,             \* the thread inside UpdateTimeSharedMemoryItem, store by store
    readers,            \* readers[r]: reader r of the local entry
    log,                \* the <<count, value>> pairs published on the local entry
    threads,            \* threads[t]: where thread t is in the call it is making
    mutex,              \* mutex[m]: the thread holding std::mutex m, 0 when it is free
    computedMax,        \* the largest source_time + rtcOffset a GetRawTimePoint() has computed
    passed,             \* passed[w]: the UpdateContext calls on w the gate let through
    call                \* the last call made on the service and what it returned

vars == <<id, testOffset, internalOffset, rtcOffset, cachedValue,
          context, automaticCorrectionEnabled, steadyOf, derived,
          timeSharedMemory, writerContext, rounds, publishes, prevArg, halted,
          writer, readers, log, threads, mutex, computedMax, passed, call>>

raceVars == <<threads, mutex, computedMax>>

seqVars == <<writer, readers, log>>

shmVars == <<timeSharedMemory, writerContext, rounds, publishes, prevArg, halted, seqVars>>

steadyVars == <<id, testOffset, internalOffset, rtcOffset, cachedValue>>

clockVars == <<context, automaticCorrectionEnabled, steadyOf, derived>>

NoCall == [op |-> "none"]

(* --------------------------- steady clocks ----------------------------- *)
\* "standard" and "tick" are the two cores of the repository; "other" is any
\* further implementation of the abstract SteadyClockCore, whose pure virtual
\* GetTimePoint() answers whatever its environment supplies.
SteadyClocks == {"standard", "tick", "other"}

\* what a steady clock reads from its environment in one GetTimePoint():
\* ns is util::GetTimeNs(), answer is what "other"'s GetTimePoint() returns
OtherAnswers == {Ok(p) : p \in TimePoints} \cup {Err(Unimplemented, ZeroTimePoint)}

NoAnswer == Err(Unimplemented, ZeroTimePoint)

\* the standard and tick cores read the time source, "other" answers by itself
EnvsOf(c) == IF c = "other" THEN [ns : {0}, answer : OtherAnswers]
                            ELSE [ns : TimeNsValues, answer : {NoAnswer}]

NoEnv == [ns |-> 0, answer |-> NoAnswer]

\* the same for a read made from inside a system clock core, where the time
\* source stands still or moves by a second
ClockEnvsOf(c) == IF c = "other" THEN [ns : {0}, answer : OtherAnswers]
                                 ELSE [ns : {0, NsInSecond}, answer : {NoAnswer}]

\* StandardSteadyClockCore::GetRawTimePoint, under its mutex; cached is
\* cachedValue before the call
StandardGetRawTimePoint(ns, cached) ==
    LET timePoint == ns + rtcOffset
    IN [ret    |-> timePoint,
        cached |-> IF timePoint > cached THEN timePoint ELSE cached]

\* StandardSteadyClockCore::GetTimePoint
StandardGetTimePoint(ns, cached) ==
    LET raw == StandardGetRawTimePoint(ns, cached)
    IN [ret    |-> Ok([timePoint |-> Seconds(raw.ret), clockSourceId |-> id["standard"]]),
        cached |-> raw.cached]

\* TickBasedSteadyClockCore::GetTimePoint
TickBasedGetTimePoint(ns, cached) ==
    [ret    |-> Ok([timePoint |-> Seconds(ns), clockSourceId |-> id["tick"]]),
     cached |-> cached]

\* virtual dispatch of SteadyClockCore::GetTimePoint
GetTimePoint(c, env, cached) ==
    CASE c = "standard" -> StandardGetTimePoint(env.ns, cached)
      [] c = "tick"     -> TickBasedGetTimePoint(env.ns, cached)
      [] OTHER          -> [ret |-> env.answer, cached |-> cached]

\* virtual GetTestOffset / GetInternalOffset: only the standard core overrides them
GetTestOffset(c) == IF c = "standard" THEN testOffset ELSE 0

GetInternalOffset(c) == IF c = "standard" THEN internalOffset ELSE 0

\* SteadyClockCore::GetCurrentTimePoint
GetCurrentTimePoint(c, env, cached) ==
    LET timePoint == GetTimePoint(c, env, cached)
    IN IF timePoint.ret.ok
       THEN [ret    |-> Ok([timePoint.ret.value EXCEPT !.timePoint =
                               @ + Seconds(GetTestOffset(c) + GetInternalOffset(c))]),
             cached |-> timePoint.cached]
       ELSE timePoint

\* SteadyClockCore::GetRawTimePoint of the base class: throws when the read fails
BaseGetRawTimePoint(c, env, cached) ==
    LET timePoint == GetTimePoint(c, env, cached)
    IN IF timePoint.ret.ok
       THEN [ret |-> FromSeconds(timePoint.ret.value.timePoint), threw |-> FALSE,
             cached |-> timePoint.cached]
       ELSE [ret |-> 0, threw |-> TRUE, cached |-> timePoint.cached]

\* ---- the calls a client makes on a steady clock core ----
DoGetRawTimePoint(c) ==
    \E env \in EnvsOf(c) :
        LET r == IF c = "standard"
                 THEN StandardGetRawTimePoint(env.ns, cachedValue) @@ [threw |-> FALSE]
                 ELSE BaseGetRawTimePoint(c, env, cachedValue)
        IN /\ cachedValue' = r.cached
           /\ call' = [op |-> "GetRawTimePoint", clock |-> c, env |-> env,
                       ret |-> r.ret, threw |-> r.threw]
           /\ UNCHANGED <<raceVars, passed, id, testOffset, internalOffset, rtcOffset, clockVars, shmVars>>

DoGetTimePoint(c) ==
    \E env \in EnvsOf(c) :
        LET r == GetTimePoint(c, env, cachedValue)
        IN /\ cachedValue' = r.cached
           /\ call' = [op |-> "GetTimePoint", clock |-> c, env |-> env, ret |-> r.ret]
           /\ UNCHANGED <<raceVars, passed, id, testOffset, internalOffset, rtcOffset, clockVars, shmVars>>

DoGetCurrentTimePoint(c) ==
    \E env \in EnvsOf(c) :
        LET r == GetCurrentTimePoint(c, env, cachedValue)
        IN /\ cachedValue' = r.cached
           /\ call' = [op |-> "GetCurrentTimePoint", clock |-> c, env |-> env, ret |-> r.ret]
           /\ UNCHANGED <<raceVars, passed, id, testOffset, internalOffset, rtcOffset, clockVars, shmVars>>

\* SetTestOffset / SetInternalOffset: the base class ignores the argument
DoSetTestOffset(c) ==
    \E o \in OffsetNsValues :
        /\ testOffset' = IF c = "standard" THEN o ELSE testOffset
        /\ call' = [op |-> "SetTestOffset", clock |-> c, arg |-> o]
        /\ UNCHANGED <<raceVars, passed, id, internalOffset, rtcOffset, cachedValue, clockVars, shmVars>>

DoSetInternalOffset(c) ==
    \E o \in OffsetNsValues :
        /\ internalOffset' = IF c = "standard" THEN o ELSE internalOffset
        /\ call' = [op |-> "SetInternalOffset", clock |-> c, arg |-> o]
        /\ UNCHANGED <<raceVars, passed, id, testOffset, rtcOffset, cachedValue, clockVars, shmVars>>

(* ------------------------------ system clocks -------------------------- *)
Cores == {"local", "network", "user", "ephemeral"}

\* a call in progress on the system clock cores: cachedValue, the contexts and
\* the calls made on the cores so far
\* and the calls that fail in it
RunningWith(faults) ==
    [cached |-> cachedValue, context |-> context, trace |-> <<>>, faults |-> faults]

Running == RunningWith({})

Traced(st, c, fn) == [st EXCEPT !.trace = Append(@, <<c, fn>>)]

\* GetClockContext and SetClockContext are virtual and the user core holds
\* the local and network cores by reference: a core built from a class derived
\* from theirs answers these calls with its override, which can fail.
\* <<c, fn, k>> is the k-th call of fn on core c within one operation.
\* The calls an operation fn on core c can reach:
FaultSites(c, fn) ==
    CASE c = "user" /\ fn # "SetClockContext" ->
             {<<"network", "GetClockContext", 1>>, <<"network", "GetClockContext", 2>>,
              <<"local", "SetClockContext", 1>>, <<"local", "GetClockContext", 1>>}
      [] c = "user" -> {}
      [] fn = "SetClockContext" -> {<<c, "SetClockContext", 1>>}
      [] OTHER -> {<<c, "GetClockContext", 1>>}

FaultsOf(c, fn) == SUBSET {site \in FaultSites(c, fn) : site[1] \in derived}

\* the Result a failing override returns
Failure(fn) == [module |-> 116, id |-> IF fn = "GetClockContext" THEN 1 ELSE 2]

CallsMade(st, c, fn) == Cardinality({i \in 1..Len(st.trace) : st.trace[i] = <<c, fn>>})

Faulted(st, c, fn) == <<c, fn, CallsMade(st, c, fn) + 1>> \in st.faults

\* the calls that did fail in an operation that has ended in st
Failed(st) == {site \in st.faults : CallsMade(st, site[1], site[2]) >= site[3]}

\* SystemClockCore::GetClockContext
BaseGetClockContext(c, st) ==
    [ret |-> Ok(st.context[c]), st |-> Traced(st, c, "GetClockContext")]

\* SystemClockCore::SetClockContext
BaseSetClockContext(c, pContext, st) ==
    [ret |-> Success,
     st  |-> [Traced(st, c, "SetClockContext") EXCEPT !.context[c] = pContext]]

\* virtual dispatch of GetClockContext / SetClockContext on the local and
\* network cores
CoreGetClockContext(c, st) ==
    IF Faulted(st, c, "GetClockContext")
    THEN [ret |-> Err(Failure("GetClockContext"), ZeroContext),
          st  |-> Traced(st, c, "GetClockContext")]
    ELSE BaseGetClockContext(c, st)

CoreSetClockContext(c, pContext, st) ==
    IF Faulted(st, c, "SetClockContext")
    THEN [ret |-> Failure("SetClockContext"), st |-> Traced(st, c, "SetClockContext")]
    ELSE BaseSetClockContext(c, pContext, st)

\* SystemClockCore::IsClockSetup reading the steady clock without looking at
\* what GetClockContext() returned
IsClockSetupAfterUnchecked(c, got, env, st) ==
    LET timePoint == GetCurrentTimePoint(steadyOf[c], env, st.cached)
    IN [ret |-> IF timePoint.ret.ok THEN Valid(timePoint.ret.value.clockSourceId)
                                   ELSE FALSE,
        st  |-> [st EXCEPT !.cached = timePoint.cached]]

\* SystemClockCore::IsClockSetup from the point where its GetClockContext()
\* call has returned got; env is what the steady clock of c reads
IsClockSetupAfter(c, got, env, st) ==
    IF got.ok
    THEN LET timePoint == GetCurrentTimePoint(steadyOf[c], env, st.cached)
         IN [ret |-> IF timePoint.ret.ok THEN Valid(timePoint.ret.value.clockSourceId)
                                        ELSE FALSE,
             st  |-> [st EXCEPT !.cached = timePoint.cached]]
    ELSE [ret |-> FALSE, st |-> st]

\* SystemClockCore::IsClockSetup on the local or network core
BaseIsClockSetup(c, env, st) ==
    LET got == CoreGetClockContext(c, Traced(st, c, "IsClockSetup"))
    IN IsClockSetupAfter(c, got.ret, env, got.st)

\* StandardUserSystemClockCore::GetClockContext returning the network context
\* without pushing it into the local core
UserGetClockContextNoPush(env, st) ==
    LET st0   == Traced(st, "user", "GetClockContext")
        setup == IF automaticCorrectionEnabled
                 THEN BaseIsClockSetup("network", env, st0)
                 ELSE [ret |-> FALSE, st |-> st0]
    IN IF setup.ret
       THEN CoreGetClockContext("network", setup.st)
       ELSE CoreGetClockContext("local", setup.st)

\* StandardUserSystemClockCore::GetClockContext asking the network core
\* before it looks at the automatic-correction flag
UserGetClockContextEager(env, st) ==
    LET st0   == Traced(st, "user", "GetClockContext")
        setup == BaseIsClockSetup("network", env, st0)
    IN IF automaticCorrectionEnabled /\ setup.ret
       THEN LET ctx == CoreGetClockContext("network", setup.st)
                ret == CoreSetClockContext("local", ctx.ret.value, ctx.st)
            IN CoreGetClockContext("local", ret.st)
       ELSE CoreGetClockContext("local", setup.st)

\* StandardUserSystemClockCore::GetClockContext that looks at neither the
\* fetched ResultValue nor the Result of the push
UserGetClockContextUnchecked(env, st) ==
    LET st0   == Traced(st, "user", "GetClockContext")
        setup == IF automaticCorrectionEnabled
                 THEN BaseIsClockSetup("network", env, st0)
                 ELSE [ret |-> FALSE, st |-> st0]
    IN IF setup.ret
       THEN LET ctx == CoreGetClockContext("network", setup.st)
                ret == CoreSetClockContext("local", ctx.ret.value, ctx.st)
            IN CoreGetClockContext("local", ret.st)
       ELSE CoreGetClockContext("local", setup.st)

\* StandardUserSystemClockCore::GetClockContext; env is what the network
\* core's steady clock reads
StandardUserGetClockContext(env, st) ==
    LET st0   == Traced(st, "user", "GetClockContext")
        setup == IF automaticCorrectionEnabled
                 THEN BaseIsClockSetup("network", env, st0)
                 ELSE [ret |-> FALSE, st |-> st0]
    IN IF setup.ret
       THEN LET ctx == CoreGetClockContext("network", setup.st)
            IN IF ~ctx.ret.ok
               THEN ctx
               ELSE LET ret == CoreSetClockContext("local", ctx.ret.value, ctx.st)
                    IN IF ret.ret # Success
                       THEN [ret |-> Err(ret.ret, ZeroContext), st |-> ret.st]
                       ELSE CoreGetClockContext("local", ret.st)
       ELSE CoreGetClockContext("local", setup.st)

\* StandardUserSystemClockCore without its SetClockContext override
UserSetClockContextInherited(pContext, st) == BaseSetClockContext("user", pContext, st)

\* StandardUserSystemClockCore::SetClockContext
StandardUserSetClockContext(pContext, st) ==
    [ret |-> Unimplemented, st |-> Traced(st, "user", "SetClockContext")]

\* virtual dispatch of GetClockContext / SetClockContext
GetClockContext(c, env, st) ==
    IF c = "user" THEN StandardUserGetClockContext(env, st) ELSE CoreGetClockContext(c, st)

SetClockContext(c, pContext, st) ==
    IF c = "user" THEN StandardUserSetClockContext(pContext, st)
                  ELSE CoreSetClockContext(c, pContext, st)

\* SystemClockCore::IsClockSetup; envNet is read by the network core's steady
\* clock (user core only), env by the steady clock of c
IsClockSetup(c, envNet, env, st) ==
    LET got == GetClockContext(c, envNet, Traced(st, c, "IsClockSetup"))
    IN IsClockSetupAfter(c, got.ret, env, got.st)

\* the user core alone reaches the network core's steady clock
NetEnvsOf(c) ==
    IF c = "user" /\ automaticCorrectionEnabled THEN ClockEnvsOf(steadyOf["network"])
                                                ELSE {NoEnv}

\* ---- the calls a client makes on a system clock core ----
DoGetClockContext(c) ==
    \E envNet \in NetEnvsOf(c), faults \in FaultsOf(c, "GetClockContext") :
        LET r == GetClockContext(c, envNet, RunningWith(faults))
        IN /\ cachedValue' = r.st.cached
           /\ context' = r.st.context
           /\ call' = [op |-> "GetClockContext", core |-> c, envNet |-> envNet,
                       faults |-> Failed(r.st), ret |-> r.ret, trace |-> r.st.trace]
           /\ UNCHANGED <<raceVars, passed, id, testOffset, internalOffset, rtcOffset,
                          automaticCorrectionEnabled, steadyOf, derived, shmVars>>

DoSetClockContext(c) ==
    \E pContext \in Contexts, faults \in FaultsOf(c, "SetClockContext") :
        LET r == SetClockContext(c, pContext, RunningWith(faults))
        IN /\ cachedValue' = r.st.cached
           /\ context' = r.st.context
           /\ call' = [op |-> "SetClockContext", core |-> c, arg |-> pContext,
                       faults |-> Failed(r.st), ret |-> r.ret, trace |-> r.st.trace]
           /\ UNCHANGED <<raceVars, passed, id, testOffset, internalOffset, rtcOffset,
                          automaticCorrectionEnabled, steadyOf, derived, shmVars>>

DoIsClockSetup(c) ==
    \E envNet \in NetEnvsOf(c), env \in ClockEnvsOf(steadyOf[c]),
       faults \in FaultsOf(c, "IsClockSetup") :
        LET r == IsClockSetup(c, envNet, env, RunningWith(faults))
        IN /\ cachedValue' = r.st.cached
           /\ context' = r.st.context
           /\ call' = [op |-> "IsClockSetup", core |-> c, envNet |-> envNet, env |-> env,
                       faults |-> Failed(r.st), ret |-> r.ret, trace |-> r.st.trace]
           /\ UNCHANGED <<raceVars, passed, id, testOffset, internalOffset, rtcOffset,
                          automaticCorrectionEnabled, steadyOf, derived, shmVars>>

(* ---------------------------- shared memory --------------------------- *)
\* a u32 as its two 16-bit halves
U16 == 2^16

Zero32 == [hi |-> 0, lo |-> 0]

Max32 == [hi |-> U16 - 1, lo |-> U16 - 1]

\* u32 + 1
Inc32(c) ==
    IF c.lo = U16 - 1 THEN [hi |-> (c.hi + 1) % U16, lo |-> 0]
                      ELSE [hi |-> c.hi, lo |-> c.lo + 1]

\* u32 & 1
Bit0(c) == c.lo % 2

\* u32 < u32
Less32(a, b) == a.hi < b.hi \/ (a.hi = b.hi /\ a.lo < b.lo)

Entries == {"localSystemClockContextEntry", "networkSystemClockContextEntry"}

\* TimeSharedMemoryLayout with every update counter at start and every slot zero
Layout(start) ==
    [localSystemClockContextEntry |->
         [updateCount |-> start, context |-> [i \in {0, 1} |-> ZeroContext]],
     networkSystemClockContextEntry |->
         [updateCount |-> start, context |-> [i \in {0, 1} |-> ZeroContext]],
     automaticCorrectionEnabledEntry |->
         [updateCount |-> start, automaticCorrectionEnabled |-> 0]]

\* the slot the current count selects, where the readers are
SlotIndexStale(newCount) == 1 - Bit0(newCount)

\* item.at(newCount & 1): the slot UpdateTimeSharedMemoryItem stores into
SlotIndex(newCount) == Bit0(newCount)

\* UpdateTimeSharedMemoryItem that never stores the new count
UpdateItemKeepsCount(entry, newValue) ==
    LET newCount == Inc32(entry.updateCount)
    IN [updateCount |-> entry.updateCount,
        context     |-> [entry.context EXCEPT ![SlotIndex(newCount)] = newValue]]

\* UpdateTimeSharedMemoryItem, run to completion
UpdateTimeSharedMemoryItem(entry, newValue) ==
    LET newCount == Inc32(entry.updateCount)
    IN [updateCount |-> newCount,
        context     |-> [entry.context EXCEPT ![SlotIndex(newCount)] = newValue]]

\* TimeSharedMemory::UpdateLocalSystemClockContext
UpdateLocalSystemClockContext(mem, ctx) ==
    [mem EXCEPT !.localSystemClockContextEntry = UpdateTimeSharedMemoryItem(@, ctx)]

\* TimeSharedMemory::UpdateNetworkSystemClockContext
UpdateNetworkSystemClockContext(mem, ctx) ==
    [mem EXCEPT !.networkSystemClockContextEntry = UpdateTimeSharedMemoryItem(@, ctx)]

\* ---- the context-update callbacks ----
Writers == {"local", "network", "ephemeral"}

\* std::optional<SystemClockContext>
None == [has |-> FALSE, value |-> ZeroContext]

Some(v) == [has |-> TRUE, value |-> v]

\* UpdateBaseContext that compares against a default context when none is stored
UpdateBaseContextNoOptional(stored, newContext) ==
    IF stored.value = newContext
    THEN [ret |-> FALSE, context |-> stored]
    ELSE [ret |-> TRUE, context |-> Some(newContext)]

\* UpdateBaseContext reporting a change without storing the new context
UpdateBaseContextNoStore(stored, newContext) ==
    IF stored.has /\ stored.value = newContext
    THEN [ret |-> FALSE, context |-> stored]
    ELSE [ret |-> TRUE, context |-> stored]

\* SystemClockContextUpdateCallback::UpdateBaseContext on the stored context
UpdateBaseContext(stored, newContext) ==
    IF stored.has /\ stored.value = newContext
    THEN [ret |-> FALSE, context |-> stored]
    ELSE [ret |-> TRUE, context |-> Some(newContext)]

\* a writer's UpdateContext in progress
Writing == [mem |-> timeSharedMemory, writerContext |-> writerContext,
            rounds |-> rounds, publishes |-> publishes]

\* SystemClockContextUpdateCallback::SignalOperationEvent: one round over
\* operationEventList, under the mutex
SignalOperationEvent(w, st) == [st EXCEPT !.rounds[w] = @ + 1]

\* the three UpdateContext bodies. returned tells whether the body reached a
\* return statement: the changed path runs off the end of a function that
\* returns Result.
LocalUpdateContext(newContext, st) ==
    LET base == UpdateBaseContext(st.writerContext["local"], newContext)
        st1  == [st EXCEPT !.writerContext["local"] = base.context]
    IN IF ~base.ret
       THEN [returned |-> TRUE, ret |-> Success, st |-> st1]
       ELSE LET st2 == [st1 EXCEPT !.mem = UpdateLocalSystemClockContext(@, newContext),
                                   !.publishes["localSystemClockContextEntry"] = @ + 1]
            IN [returned |-> FALSE, ret |-> Success, st |-> SignalOperationEvent("local", st2)]

NetworkUpdateContext(newContext, st) ==
    LET base == UpdateBaseContext(st.writerContext["network"], newContext)
        st1  == [st EXCEPT !.writerContext["network"] = base.context]
    IN IF ~base.ret
       THEN [returned |-> TRUE, ret |-> Success, st |-> st1]
       ELSE LET st2 == [st1 EXCEPT !.mem = UpdateNetworkSystemClockContext(@, newContext),
                                   !.publishes["networkSystemClockContextEntry"] = @ + 1]
            IN [returned |-> FALSE, ret |-> Success, st |-> SignalOperationEvent("network", st2)]

\* the ephemeral writer publishing on the network entry as the network writer does
EphemeralUpdateContextPublishing(newContext, st) ==
    LET base == UpdateBaseContext(st.writerContext["ephemeral"], newContext)
        st1  == [st EXCEPT !.writerContext["ephemeral"] = base.context]
    IN IF ~base.ret
       THEN [returned |-> TRUE, ret |-> Success, st |-> st1]
       ELSE LET st2 == [st1 EXCEPT !.mem = UpdateNetworkSystemClockContext(@, newContext)]
            IN [returned |-> FALSE, ret |-> Success,
                st |-> SignalOperationEvent("ephemeral", st2)]

EphemeralUpdateContext(newContext, st) ==
    LET base == UpdateBaseContext(st.writerContext["ephemeral"], newContext)
        st1  == [st EXCEPT !.writerContext["ephemeral"] = base.context]
    IN IF ~base.ret
       THEN [returned |-> TRUE, ret |-> Success, st |-> st1]
       ELSE [returned |-> FALSE, ret |-> Success, st |-> SignalOperationEvent("ephemeral", st1)]

\* virtual dispatch of UpdateContext
UpdateContext(w, newContext, st) ==
    CASE w = "local"   -> LocalUpdateContext(newContext, st)
      [] w = "network" -> NetworkUpdateContext(newContext, st)
      [] OTHER         -> EphemeralUpdateContext(newContext, st)

\* what running off the end of UpdateContext can do: hand the caller whatever
\* the return register holds (success or not), or trap
Garbage == [module |-> 1, id |-> 1]

Undefined == {"success", "garbage", "trap"}

Outcomes(r) == IF r.returned THEN {"returned"} ELSE Undefined

\* the publishes and the signal rounds without a publish made so far
Spent(pubs, rnds) ==
    pubs["localSystemClockContextEntry"] + pubs["networkSystemClockContextEntry"]
        + rnds["ephemeral"]

\* a count of calls, which outgrows a u32: hi * 2^16 + lo
ZeroCalls == [hi |-> 0, lo |-> 0]

OneMoreCall(n) ==
    IF n.lo = U16 - 1 THEN [hi |-> n.hi + 1, lo |-> 0] ELSE [hi |-> n.hi, lo |-> n.lo + 1]

\* ---- the calls a client makes on the writers and on TimeSharedMemory ----
DoUpdateContext(w) ==
    /\ ~halted
    /\ \E newContext \in Contexts :
        LET r == UpdateContext(w, newContext, Writing)
        IN /\ Spent(r.st.publishes, r.st.rounds) <= MaxPublishes
           /\ \E outcome \in Outcomes(r) :
               /\ timeSharedMemory' = r.st.mem
               /\ writerContext' = r.st.writerContext
               /\ rounds' = r.st.rounds
               /\ publishes' = r.st.publishes
               /\ prevArg' = [prevArg EXCEPT ![w] = Some(newContext)]
               /\ passed' = IF UpdateBaseContext(writerContext[w], newContext).ret
                            THEN [passed EXCEPT ![w] = OneMoreCall(@)]
                            ELSE passed
               /\ halted' = (outcome = "trap")
               /\ call' = [op |-> "UpdateContext", writer |-> w, arg |-> newContext,
                           outcome |-> outcome,
                           ret |-> IF outcome = "garbage" THEN Garbage ELSE r.ret]
    /\ UNCHANGED <<raceVars, steadyVars, clockVars, seqVars>>

DoPublish(e) ==
    /\ ~halted
    /\ Spent(publishes, rounds) < MaxPublishes
    /\ \E ctx \in Contexts :
        /\ timeSharedMemory' = IF e = "localSystemClockContextEntry"
                               THEN UpdateLocalSystemClockContext(timeSharedMemory, ctx)
                               ELSE UpdateNetworkSystemClockContext(timeSharedMemory, ctx)
        /\ publishes' = [publishes EXCEPT ![e] = @ + 1]
        /\ call' = [op |-> "Publish", entry |-> e, arg |-> ctx]
    /\ UNCHANGED <<raceVars, passed, steadyVars, clockVars, writerContext, rounds, prevArg, halted, seqVars>>

(* ------------------- the publish, store by store ----------------------- *)
\* the fields a copy of a SystemClockContext moves one after the other
Fields == {"timePoint", "clockSourceId", "offset"}

Field(ctx, f) ==
    CASE f = "timePoint"     -> ctx.steadyTimePoint.timePoint
      [] f = "clockSourceId" -> ctx.steadyTimePoint.clockSourceId
      [] OTHER               -> ctx.offset

WithField(ctx, f, v) ==
    CASE f = "timePoint"     -> [ctx EXCEPT !.steadyTimePoint.timePoint = v]
      [] f = "clockSourceId" -> [ctx EXCEPT !.steadyTimePoint.clockSourceId = v]
      [] OTHER               -> [ctx EXCEPT !.offset = v]

SeqEntry == "localSystemClockContextEntry"

IdleWriter == [pc |-> "idle", newCount |-> Zero32, newValue |-> ZeroContext, todo |-> {}]

\* u32 newCount{updateCount + 1}
WriterBegin ==
    /\ writer.pc = "idle"
    /\ publishes[SeqEntry] < MaxPublishes
    /\ \E ctx \in Contexts :
        LET newCount == Inc32(timeSharedMemory[SeqEntry].updateCount)
        IN /\ writer' = [pc |-> "store", newCount |-> newCount, newValue |-> ctx,
                         todo |-> Fields]
           /\ log' = log \cup {<<newCount, ctx>>}
    /\ UNCHANGED <<raceVars, passed, steadyVars, clockVars, timeSharedMemory, writerContext, rounds,
                   publishes, prevArg, halted, readers, call>>

\* item.at(newCount & 1) = newValue, one field at a time
WriterStore ==
    /\ writer.pc = "store"
    /\ \E f \in writer.todo :
        /\ timeSharedMemory' =
               [timeSharedMemory EXCEPT ![SeqEntry].context[SlotIndex(writer.newCount)] =
                    WithField(@, f, Field(writer.newValue, f))]
        /\ writer' = [writer EXCEPT !.todo = @ \ {f}]
    /\ UNCHANGED <<raceVars, passed, steadyVars, clockVars, writerContext, rounds, publishes, prevArg,
                   halted, readers, log, call>>

\* the store of the count overtaking the stores to the slot, as it can
\* without the barrier
WriterBarrierEarly ==
    /\ writer.pc = "store"
    /\ writer' = [writer EXCEPT !.pc = "count"]
    /\ UNCHANGED <<raceVars, passed, steadyVars, clockVars, timeSharedMemory, writerContext, rounds,
                   publishes, prevArg, halted, readers, log, call>>

\* DMB ISHST: the stores to the slot are visible before the store that follows
WriterBarrier ==
    /\ writer.pc = "store"
    /\ writer.todo = {}
    /\ writer' = [writer EXCEPT !.pc = "count"]
    /\ UNCHANGED <<raceVars, passed, steadyVars, clockVars, timeSharedMemory, writerContext, rounds,
                   publishes, prevArg, halted, readers, log, call>>

\* updateCount = newCount
WriterCount ==
    /\ writer.pc = "count"
    /\ timeSharedMemory' = [timeSharedMemory EXCEPT ![SeqEntry].updateCount = writer.newCount]
    /\ publishes' = [publishes EXCEPT ![SeqEntry] = @ + 1]
    /\ writer' = IdleWriter
    /\ call' = [op |-> "Publish", entry |-> SeqEntry, arg |-> writer.newValue]
    /\ UNCHANGED <<raceVars, passed, steadyVars, clockVars, writerContext, rounds, prevArg, halted,
                   readers, log>>

\* ---- a reader of the entry: count, slot, count again ----
Readers == 1..NumReaders

\* the reader loads the fields in the order of their addresses
FieldOrder == <<"timePoint", "clockSourceId", "offset">>

IdleReader == [pc |-> "start", count |-> Zero32, got |-> ZeroContext, todo |-> <<>>]

ReaderCount(r) ==
    /\ readers[r].pc \in {"start", "accepted"}
    /\ readers' = [readers EXCEPT ![r] =
           [pc |-> "read", count |-> timeSharedMemory[SeqEntry].updateCount,
            got |-> ZeroContext, todo |-> FieldOrder]]
    /\ UNCHANGED <<raceVars, passed, steadyVars, clockVars, timeSharedMemory, writerContext, rounds,
                   publishes, prevArg, halted, writer, log, call>>

ReaderLoad(r) ==
    /\ readers[r].pc = "read"
    /\ readers[r].todo # <<>>
    /\ LET f == Head(readers[r].todo)
       IN readers' = [readers EXCEPT ![r].todo = Tail(@),
                                     ![r].got = WithField(@, f,
                                         Field(timeSharedMemory[SeqEntry].context[Bit0(readers[r].count)], f))]
    /\ UNCHANGED <<raceVars, passed, steadyVars, clockVars, timeSharedMemory, writerContext, rounds,
                   publishes, prevArg, halted, writer, log, call>>

ReaderRecheck(r) ==
    /\ readers[r].pc = "read"
    /\ readers[r].todo = <<>>
    /\ readers' = [readers EXCEPT ![r].pc =
           IF timeSharedMemory[SeqEntry].updateCount = readers[r].count
           THEN "accepted" ELSE "start"]
    /\ UNCHANGED <<raceVars, passed, steadyVars, clockVars, timeSharedMemory, writerContext, rounds,
                   publishes, prevArg, halted, writer, log, call>>

(* ------------------------ calls from several threads ------------------- *)
Threads == 1..NumThreads

\* StandardSteadyClockCore::mutex and the mutex of each writer
Mutexes == {"standard"} \cup Writers

IdleThread == [pc |-> "idle"]

\* ---- StandardSteadyClockCore::GetRawTimePoint, statement by statement ----
\* lock_guard's constructor taking the mutex although another thread holds it
RawLockUnguarded(t) ==
    /\ threads[t].pc = "idle"
    /\ mutex' = [mutex EXCEPT !["standard"] = t]
    /\ threads' = [threads EXCEPT ![t] = [pc |-> "time"]]
    /\ UNCHANGED <<steadyVars, clockVars, shmVars, computedMax, passed, call>>

\* std::lock_guard lock(mutex)
RawLock(t) ==
    /\ threads[t].pc = "idle"
    /\ mutex["standard"] = 0
    /\ mutex' = [mutex EXCEPT !["standard"] = t]
    /\ threads' = [threads EXCEPT ![t] = [pc |-> "time"]]
    /\ UNCHANGED <<steadyVars, clockVars, shmVars, computedMax, passed, call>>

\* auto timePoint{TimeSpanType::FromNanoseconds(util::GetTimeNs()) + rtcOffset}
RawTime(t) ==
    /\ threads[t].pc = "time"
    /\ \E ns \in TimeNsValues :
        LET timePoint == ns + rtcOffset
        IN /\ threads' = [threads EXCEPT ![t] = [pc |-> "compare", timePoint |-> timePoint]]
           /\ computedMax' = IF timePoint > computedMax THEN timePoint ELSE computedMax
    /\ UNCHANGED <<steadyVars, clockVars, shmVars, mutex, passed, call>>

\* if (timePoint > cachedValue)
RawCompare(t) ==
    /\ threads[t].pc = "compare"
    /\ threads' = [threads EXCEPT ![t].pc =
                       IF threads[t].timePoint > cachedValue THEN "store" ELSE "return"]
    /\ UNCHANGED <<steadyVars, clockVars, shmVars, mutex, computedMax, passed, call>>

\* cachedValue = timePoint
RawStore(t) ==
    /\ threads[t].pc = "store"
    /\ cachedValue' = threads[t].timePoint
    /\ threads' = [threads EXCEPT ![t].pc = "return"]
    /\ UNCHANGED <<id, testOffset, internalOffset, rtcOffset, clockVars, shmVars,
                   mutex, computedMax, passed, call>>

\* return timePoint, and the lock_guard's destructor
RawReturn(t) ==
    /\ threads[t].pc = "return"
    /\ mutex' = [mutex EXCEPT !["standard"] = IF @ = t THEN 0 ELSE @]
    /\ threads' = [threads EXCEPT ![t] = IdleThread]
    /\ call' = [op |-> "GetRawTimePoint", clock |-> "standard", thread |-> t,
                ret |-> threads[t].timePoint, threw |-> FALSE]
    /\ UNCHANGED <<steadyVars, clockVars, shmVars, computedMax, passed>>

\* ---- UpdateContext of the Local and Network writers, statement by statement ----
\* the writers that publish
Publishers == {"local", "network"}

\* every writer publishing on the local entry
EntryAlwaysLocal(w) == "localSystemClockContextEntry"

\* the entry writer w publishes on
EntryOfWriter(w) == IF w = "local" THEN "localSystemClockContextEntry"
                                   ELSE "networkSystemClockContextEntry"

\* UpdateBaseContext: if (context && context == newContext) return false;
\* a thread makes one call
UcGate(t) ==
    /\ threads[t].pc = "idle"
    /\ \E w \in Publishers, newContext \in Contexts :
        LET stored == writerContext[w]
        IN threads' = [threads EXCEPT ![t] =
               [pc |-> IF stored.has /\ stored.value = newContext THEN "done" ELSE "assign",
                w |-> w, newContext |-> newContext, newCount |-> Zero32]]
    /\ UNCHANGED <<steadyVars, clockVars, shmVars, mutex, computedMax, passed, call>>

\* UpdateBaseContext: context = newContext; return true;
UcAssign(t) ==
    /\ threads[t].pc = "assign"
    /\ writerContext' = [writerContext EXCEPT ![threads[t].w] = Some(threads[t].newContext)]
    /\ passed' = [passed EXCEPT ![threads[t].w] = OneMoreCall(@)]
    /\ threads' = [threads EXCEPT ![t].pc = "count"]
    /\ UNCHANGED <<steadyVars, clockVars, timeSharedMemory, rounds, publishes, prevArg,
                   halted, seqVars, mutex, computedMax, call>>

\* UpdateTimeSharedMemoryItem: u32 newCount{updateCount + 1}
UcCount(t) ==
    /\ threads[t].pc = "count"
    /\ threads' = [threads EXCEPT
           ![t].pc = "slot",
           ![t].newCount = Inc32(timeSharedMemory[EntryOfWriter(threads[t].w)].updateCount)]
    /\ UNCHANGED <<steadyVars, clockVars, shmVars, mutex, computedMax, passed, call>>

\* UpdateTimeSharedMemoryItem: item.at(newCount & 1) = newValue, and the barrier
UcSlot(t) ==
    /\ threads[t].pc = "slot"
    /\ timeSharedMemory' =
           [timeSharedMemory EXCEPT
               ![EntryOfWriter(threads[t].w)].context[SlotIndex(threads[t].newCount)] =
                   threads[t].newContext]
    /\ threads' = [threads EXCEPT ![t].pc = "setcount"]
    /\ UNCHANGED <<steadyVars, clockVars, writerContext, rounds, publishes, prevArg,
                   halted, seqVars, mutex, computedMax, passed, call>>

\* UpdateTimeSharedMemoryItem: updateCount = newCount
UcSetCount(t) ==
    /\ threads[t].pc = "setcount"
    /\ timeSharedMemory' =
           [timeSharedMemory EXCEPT
               ![EntryOfWriter(threads[t].w)].updateCount = threads[t].newCount]
    /\ publishes' = [publishes EXCEPT ![EntryOfWriter(threads[t].w)] = @ + 1]
    /\ threads' = [threads EXCEPT ![t].pc = "lock"]
    /\ UNCHANGED <<steadyVars, clockVars, writerContext, rounds, prevArg,
                   halted, seqVars, mutex, computedMax, passed, call>>

\* SignalOperationEvent: std::lock_guard lock(mutex)
UcLock(t) ==
    /\ threads[t].pc = "lock"
    /\ mutex[threads[t].w] = 0
    /\ mutex' = [mutex EXCEPT ![threads[t].w] = t]
    /\ threads' = [threads EXCEPT ![t].pc = "signal"]
    /\ UNCHANGED <<steadyVars, clockVars, shmVars, computedMax, passed, call>>

\* SignalOperationEvent: the round over operationEventList, and the unlock
UcSignal(t) ==
    /\ threads[t].pc = "signal"
    /\ rounds' = [rounds EXCEPT ![threads[t].w] = @ + 1]
    /\ mutex' = [mutex EXCEPT ![threads[t].w] = 0]
    /\ threads' = [threads EXCEPT ![t].pc = "done"]
    /\ UNCHANGED <<steadyVars, clockVars, timeSharedMemory, writerContext, publishes,
                   prevArg, halted, seqVars, computedMax, passed, call>>

(* --------------------------- specifications ---------------------------- *)
\* TimeService's wiring, and the same with the local and network cores
\* constructed on another steady clock
TimeServiceWiring ==
    [c \in Cores |-> IF c = "ephemeral" THEN "tick" ELSE "standard"]

OtherWiring == [TimeServiceWiring EXCEPT !["network"] = "other", !["local"] = "other"]

Wirings == {TimeServiceWiring, OtherWiring}

InitSteady ==
    /\ id = [c \in {"standard", "tick"} |-> 0]
    /\ testOffset = 0
    /\ internalOffset = 0
    /\ rtcOffset = 0
    /\ cachedValue = 0

InitClock ==
    /\ context = [c \in Cores |-> ZeroContext]
    /\ automaticCorrectionEnabled = FALSE
    /\ steadyOf = TimeServiceWiring
    /\ derived = {}

\* the writers as constructed; the constructor of TimeSharedMemory maps the
\* region and sets no field of it
InitWriters ==
    /\ writerContext = [w \in Writers |-> None]
    /\ rounds = [w \in Writers |-> 0]
    /\ publishes = [e \in Entries |-> 0]
    /\ prevArg = [w \in Writers |-> None]
    /\ halted = FALSE
    /\ writer = IdleWriter
    /\ readers = [r \in Readers |-> IdleReader]
    /\ log = {<<timeSharedMemory[SeqEntry].updateCount, ZeroContext>>}
    /\ threads = [t \in Threads |-> IdleThread]
    /\ mutex = [m \in Mutexes |-> 0]
    /\ computedMax = 0
    /\ passed = [w \in Writers |-> ZeroCalls]

InitShm ==
    /\ timeSharedMemory = Layout(Zero32)
    /\ InitWriters

Init ==
    /\ InitSteady
    /\ InitClock
    /\ InitShm
    /\ call = NoCall

NextSteady ==
    \/ \E c \in SteadyClocks : DoGetRawTimePoint(c)
    \/ \E c \in SteadyClocks : DoGetTimePoint(c)
    \/ \E c \in SteadyClocks : DoGetCurrentTimePoint(c)
    \/ \E c \in SteadyClocks : DoSetTestOffset(c)
    \/ \E c \in SteadyClocks : DoSetInternalOffset(c)

SpecSteady == Init /\ [][NextSteady]_vars

\* the system clock cores; the automatic-correction flag has no setter in the
\* core and is whatever the service set it to
InitClockAny ==
    /\ InitSteady
    /\ context = [c \in Cores |-> ZeroContext]
    /\ automaticCorrectionEnabled \in BOOLEAN
    /\ steadyOf \in Wirings
    /\ derived = {}
    /\ InitShm
    /\ call = NoCall

NextClock ==
    \/ \E c \in Cores : DoGetClockContext(c)
    \/ \E c \in Cores : DoSetClockContext(c)
    \/ \E c \in Cores : DoIsClockSetup(c)

SpecClock == InitClockAny /\ [][NextClock]_vars

\* the system clock cores as TimeService wires them
InitService ==
    /\ InitSteady
    /\ context = [c \in Cores |-> ZeroContext]
    /\ automaticCorrectionEnabled \in BOOLEAN
    /\ steadyOf = TimeServiceWiring
    /\ derived = {}
    /\ InitShm
    /\ call = NoCall

SpecService == InitService /\ [][NextClock]_vars

\* the user core with automatic correction enabled, holding a local and a
\* network core whose class overrides GetClockContext / SetClockContext and
\* whose steady clock is not one of the repository's
InitDerived ==
    /\ InitSteady
    /\ context = [c \in Cores |-> ZeroContext]
    /\ automaticCorrectionEnabled = TRUE
    /\ steadyOf = OtherWiring
    /\ derived = {"local", "network"}
    /\ InitShm
    /\ call = NoCall

\* the user core and the two cores it references
UserCores == {"user", "local", "network"}

NextDerived ==
    \/ \E c \in UserCores : DoGetClockContext(c)
    \/ \E c \in UserCores : DoSetClockContext(c)
    \/ \E c \in UserCores : DoIsClockSetup(c)

SpecDerived == InitDerived /\ [][NextDerived]_vars

\* the shared memory and its writers. The update counters start at zero, or
\* one short of wrapping, where 2^32 - 1 publishes leave them.
StartCounts == {Zero32, Max32}

InitShmAny ==
    /\ InitSteady
    /\ InitClock
    /\ \E start \in StartCounts : timeSharedMemory = Layout(start)
    /\ InitWriters
    /\ call = NoCall

NextShm ==
    \/ \E w \in Writers : DoUpdateContext(w)
    \/ \E e \in Entries : DoPublish(e)

SpecShm == InitShmAny /\ [][NextShm]_vars

\* one thread publishing on the local entry, store by store, and the readers
NextSeqlock ==
    \/ WriterBegin
    \/ WriterStore
    \/ WriterBarrier
    \/ WriterCount
    \/ \E r \in Readers : ReaderCount(r)
    \/ \E r \in Readers : ReaderLoad(r)
    \/ \E r \in Readers : ReaderRecheck(r)

SpecSeqlock == InitShmAny /\ [][NextSeqlock]_vars

\* threads calling GetRawTimePoint() on the one StandardSteadyClockCore
NextRawThreads ==
    \/ \E t \in Threads : RawLock(t)
    \/ \E t \in Threads : RawTime(t)
    \/ \E t \in Threads : RawCompare(t)
    \/ \E t \in Threads : RawStore(t)
    \/ \E t \in Threads : RawReturn(t)

SpecRawThreads == Init /\ [][NextRawThreads]_vars

\* the Local and Network writers after one UpdateContext(SystemClockContext{})
\* each on a zeroed region, and threads that now call them at the same time
CountOne == [hi |-> 0, lo |-> 1]

InitWriterThreads ==
    /\ InitSteady
    /\ InitClock
    /\ timeSharedMemory =
           [Layout(Zero32) EXCEPT !.localSystemClockContextEntry.updateCount = CountOne,
                                  !.networkSystemClockContextEntry.updateCount = CountOne]
    /\ writerContext = [w \in Writers |-> IF w \in Publishers THEN Some(ZeroContext) ELSE None]
    /\ rounds = [w \in Writers |-> IF w \in Publishers THEN 1 ELSE 0]
    /\ publishes = [e \in Entries |-> 1]
    /\ prevArg = [w \in Writers |-> IF w \in Publishers THEN Some(ZeroContext) ELSE None]
    /\ halted = FALSE
    /\ writer = IdleWriter
    /\ readers = [r \in Readers |-> IdleReader]
    /\ log = {<<Zero32, ZeroContext>>}
    /\ threads = [t \in Threads |-> IdleThread]
    /\ mutex = [m \in Mutexes |-> 0]
    /\ computedMax = 0
    /\ passed = [w \in Writers |-> IF w \in Publishers THEN OneMoreCall(ZeroCalls)
                                                      ELSE ZeroCalls]
    /\ call = NoCall

NextWriterThreads ==
    \/ \E t \in Threads : UcGate(t)
    \/ \E t \in Threads : UcAssign(t)
    \/ \E t \in Threads : UcCount(t)
    \/ \E t \in Threads : UcSlot(t)
    \/ \E t \in Threads : UcSetCount(t)
    \/ \E t \in Threads : UcLock(t)
    \/ \E t \in Threads : UcSignal(t)

SpecWriterThreads == InitWriterThreads /\ [][NextWriterThreads]_vars

\* calls made one after the other on the Local and Network writers, nobody
\* else publishing: from construction on a zeroed region, or from where
\* 2^32 - 1 calls past the gate leave a writer, the last one made with x and
\* the one before it with y
MaxCalls == [hi |-> U16 - 1, lo |-> U16 - 1]

AfterMaxCalls(x, y) ==
    [updateCount |-> Max32, context |-> [i \in {0, 1} |-> IF i = 1 THEN x ELSE y]]

InitSerialWriters ==
    /\ InitSteady
    /\ InitClock
    /\ rounds = [w \in Writers |-> 0]
    /\ publishes = [e \in Entries |-> 0]
    /\ halted = FALSE
    /\ writer = IdleWriter
    /\ readers = [r \in Readers |-> IdleReader]
    /\ log = {<<Zero32, ZeroContext>>}
    /\ threads = [t \in Threads |-> IdleThread]
    /\ mutex = [m \in Mutexes |-> 0]
    /\ computedMax = 0
    /\ call = NoCall
    /\ \/ /\ timeSharedMemory = Layout(Zero32)
          /\ writerContext = [w \in Writers |-> None]
          /\ prevArg = [w \in Writers |-> None]
          /\ passed = [w \in Writers |-> ZeroCalls]
       \/ \E x \in Contexts, y \in Contexts :
             /\ x # y
             /\ timeSharedMemory =
                    [Layout(Zero32) EXCEPT
                        !.localSystemClockContextEntry = AfterMaxCalls(x, y),
                        !.networkSystemClockContextEntry = AfterMaxCalls(x, y)]
             /\ writerContext = [w \in Writers |-> IF w \in Publishers THEN Some(x) ELSE None]
             /\ prevArg = [w \in Writers |-> IF w \in Publishers THEN Some(x) ELSE None]
             /\ passed = [w \in Writers |-> IF w \in Publishers THEN MaxCalls ELSE ZeroCalls]

NextSerialWriters == \E w \in Publishers : DoUpdateContext(w)

SpecSerialWriters == InitSerialWriters /\ [][NextSerialWriters]_vars

(* ------------------------------- claims -------------------------------- *)
IsCall(c, op) == c.op = op

StandardRaw(c) == c.op = "GetRawTimePoint" /\ c.clock = "standard"

\* C1: the values StandardSteadyClockCore::GetRawTimePoint() returns never
\* decrease, whatever the time source answers: a call returns at least what
\* the previous call returned, and returns the cached maximum whenever
\* source_time + rtcOffset is not above it.
C1_RawTimePointNeverRegresses ==
    [][StandardRaw(call') =>
          /\ (StandardRaw(call) => call'.ret >= call.ret)
          /\ (call'.env.ns + rtcOffset <= cachedValue => call'.ret = cachedValue)]_vars

UserGet(c) == c.op = "GetClockContext" /\ c.core = "user"

\* what networkSystemClock.IsClockSetup() answers in the current state when
\* the network core's steady clock reads env
NetworkIsSetup(env) == IsClockSetup("network", NoEnv, env, Running).ret

CallsOn(c, core) == {i \in 1..Len(c.trace) : c.trace[i][1] = core}

\* C6: StandardUserSystemClockCore::GetClockContext() with automatic correction
\* enabled and the network clock set up with context C writes C into the local
\* clock, returns C and leaves the network clock's context unchanged.
C6_UserGetPropagatesNetworkContext ==
    [][(UserGet(call') /\ automaticCorrectionEnabled /\ NetworkIsSetup(call'.envNet)) =>
          /\ context'["local"] = context["network"]
          /\ call'.ret = Ok(context["network"])
          /\ context'["network"] = context["network"]]_vars

C6_Witness ==
    /\ UserGet(call)
    /\ automaticCorrectionEnabled
    /\ \E i \in 1..Len(call.trace) : call.trace[i] = <<"local", "SetClockContext">>
    /\ call.ret.ok
    /\ call.ret.value = context["network"]
    /\ context["local"] = context["network"]
    /\ context["network"] # ZeroContext

\* C7: StandardUserSystemClockCore::GetClockContext() with automatic correction
\* disabled, or enabled while the network clock is not set up, returns the
\* local clock's stored context and changes no context; with correction
\* disabled it makes no call on the network clock (whose steady clock is
\* therefore not read either).
C7_UserGetWithoutPropagation ==
    [][(UserGet(call') /\ (~automaticCorrectionEnabled \/ ~NetworkIsSetup(call'.envNet))) =>
          /\ call'.ret = Ok(context["local"])
          /\ context' = context
          /\ (~automaticCorrectionEnabled =>
                 CallsOn(call', "network") = {} /\ cachedValue' = cachedValue)]_vars

C7_Witness ==
    /\ UserGet(call)
    /\ ~automaticCorrectionEnabled
    /\ call.ret = Ok(context["local"])
    /\ context["local"] # ZeroContext
    /\ Valid(context["network"].steadyTimePoint.clockSourceId)
    /\ context["network"] # context["local"]

\* the steady clock read inside an IsClockSetup call succeeded
SteadyReadOk(c) == steadyOf[c.core] # "other" \/ c.env.answer.ok

\* C8: IsClockSetup() returns false whenever the context stored in the core
\* carries an all-zero clock-source identifier, and true whenever it carries a
\* nonzero identifier and the steady clock's read succeeds.
C8_IsClockSetupFollowsStoredId ==
    (IsCall(call, "IsClockSetup") /\ call.core # "user") =>
        /\ (~Valid(context[call.core].steadyTimePoint.clockSourceId) => call.ret = FALSE)
        /\ (Valid(context[call.core].steadyTimePoint.clockSourceId) /\ SteadyReadOk(call)
               => call.ret = TRUE)

\* C9: both steady clock cores carry a nonzero clock-source identifier from
\* construction onward, so every time point GetTimePoint() /
\* GetCurrentTimePoint() returns has clockSourceId # 0.
C9_SteadyClockIdValid ==
    /\ \A c \in {"standard", "tick"} : Valid(id[c])
    /\ (call.op \in {"GetTimePoint", "GetCurrentTimePoint"} /\ call.clock # "other")
          => Valid(call.ret.value.clockSourceId)

UserSet(c) == c.op = "SetClockContext" /\ c.core = "user"

\* C10: StandardUserSystemClockCore::SetClockContext(ctx) returns Unimplemented
\* for every argument in every state and leaves the stored contexts of the
\* user, local and network clocks unchanged.
C10_UserSetClockContextUnimplemented ==
    [][UserSet(call') =>
          /\ call'.ret = Unimplemented
          /\ call'.ret # Success
          /\ \A c \in {"user", "local", "network"} : context'[c] = context[c]]_vars

C10_Witness ==
    /\ UserSet(call)
    /\ call.ret = Unimplemented
    /\ call.arg # ZeroContext
    /\ context["local"] # ZeroContext
    /\ context["network"] # ZeroContext
    /\ context["user"] = ZeroContext

CurrentCall(c) == c.op = "GetCurrentTimePoint"

\* q is ns / 10^9 truncated toward zero
IsWholeSeconds(q, ns) ==
    LET absq == IF q < 0 THEN 0 - q ELSE q
        absns == IF ns < 0 THEN 0 - ns ELSE ns
    IN /\ absq * NsInSecond <= absns
       /\ absns < (absq + 1) * NsInSecond
       /\ (q < 0 => ns < 0)
       /\ (q > 0 => ns > 0)

\* C13: SteadyClockCore::GetCurrentTimePoint() returns, when GetTimePoint()
\* succeeds with point p, a point with p's clockSourceId and with seconds
\* p.seconds plus (GetTestOffset() + GetInternalOffset()) / 10^9 truncated
\* toward zero; when GetTimePoint() fails it returns that failure. On a
\* StandardSteadyClockCore the offsets are the values last given to
\* SetTestOffset / SetInternalOffset (zero by default), on any other core zero.
C13_CurrentTimePointAddsWholeSeconds ==
    /\ [][CurrentCall(call') =>
             LET p == GetTimePoint(call'.clock, call'.env, cachedValue).ret
                 sum == IF call'.clock = "standard" THEN testOffset + internalOffset ELSE 0
             IN IF p.ok
                THEN /\ call'.ret.ok
                     /\ call'.ret.value.clockSourceId = p.value.clockSourceId
                     /\ \E q \in -1..1 :
                            /\ IsWholeSeconds(q, sum)
                            /\ call'.ret.value.timePoint = p.value.timePoint + q
                ELSE call'.ret = p]_vars
    /\ [][/\ (call'.op = "SetTestOffset" /\ call'.clock = "standard"
                  => testOffset' = call'.arg)
          /\ (call'.op = "SetInternalOffset" /\ call'.clock = "standard"
                  => internalOffset' = call'.arg)
          /\ (~(call'.op = "SetTestOffset" /\ call'.clock = "standard")
                  => testOffset' = testOffset)
          /\ (~(call'.op = "SetInternalOffset" /\ call'.clock = "standard")
                  => internalOffset' = internalOffset)]_vars

\* a negative half second of offset, which truncates to zero seconds
C13_Witness ==
    /\ CurrentCall(call)
    /\ call.clock = "standard"
    /\ testOffset + internalOffset = 0 - HalfSecond
    /\ internalOffset # 0
    /\ call.env.ns = NsInSecond
    /\ call.ret.ok
    /\ call.ret.value.timePoint = 1

\* the propagation path of the user core's GetClockContext is taken by call c
\* made in the current state: the flag is set and networkSystemClock.IsClockSetup()
\* answers true
PropagationPath(c) ==
    /\ automaticCorrectionEnabled
    /\ <<"network", "GetClockContext", 1>> \notin c.faults
    /\ LET timePoint == GetCurrentTimePoint(steadyOf["network"], c.envNet, cachedValue).ret
       IN timePoint.ok /\ Valid(timePoint.value.clockSourceId)

FetchFails(c) == <<"network", "GetClockContext", 2>> \in c.faults

PushFails(c) == <<"local", "SetClockContext", 1>> \in c.faults

\* C11: in StandardUserSystemClockCore::GetClockContext(), when the propagation
\* path is taken and fetching the network clock's context fails, the call
\* returns that failure, SetClockContext is not called on the local clock and
\* the local clock's stored context is unchanged; when the fetch succeeds but
\* the local SetClockContext fails, the call returns that failure instead of a
\* context.
C11_UserGetPropagatesFailures ==
    [][(UserGet(call') /\ PropagationPath(call')) =>
          /\ (FetchFails(call') =>
                 /\ ~call'.ret.ok
                 /\ call'.ret.result = Failure("GetClockContext")
                 /\ \A i \in 1..Len(call'.trace) :
                        call'.trace[i] # <<"local", "SetClockContext">>
                 /\ context'["local"] = context["local"])
          /\ ((~FetchFails(call') /\ PushFails(call')) =>
                 /\ ~call'.ret.ok
                 /\ call'.ret.result = Failure("SetClockContext"))]_vars

\* a fetch that failed on the propagation path, the local and the network
\* core holding different contexts
C11_Witness ==
    /\ UserGet(call)
    /\ PropagationPath(call)
    /\ FetchFails(call)
    /\ ~call.ret.ok
    /\ context["local"] # context["network"]
    /\ context["network"] # ZeroContext

\* C12: SystemClockCore::IsClockSetup() returns true if and only if
\* GetClockContext() succeeds, the referenced steady clock's
\* GetCurrentTimePoint() succeeds and the clock-source identifier of the
\* returned time point is nonzero; it returns false in every other case and
\* does not change the core's stored context.
C12_IsClockSetupIffAllSucceed ==
    [][IsCall(call', "IsClockSetup") =>
          LET c == call'.core
              got == GetClockContext(c, call'.envNet, RunningWith(call'.faults)).ret
              timePoint == GetCurrentTimePoint(steadyOf[c], call'.env, cachedValue).ret
          IN /\ call'.ret \in BOOLEAN
             /\ call'.ret = TRUE <=>
                    (got.ok /\ timePoint.ok /\ timePoint.value.clockSourceId # 0)
             /\ context'[c] = context[c]]_vars

\* the network core answered true while holding a context with the nil identifier
C12_Witness ==
    /\ IsCall(call, "IsClockSetup")
    /\ call.core = "network"
    /\ call.ret = TRUE
    /\ call.faults = {}
    /\ call.env.answer.ok
    /\ context["network"] # ZeroContext
    /\ ~Valid(context["network"].steadyTimePoint.clockSourceId)

WriterCall(c, w) == c.op = "UpdateContext" /\ c.writer = w

EntryOf(w) == IF w = "local" THEN "localSystemClockContextEntry"
                             ELSE "networkSystemClockContextEntry"

\* c + 1 of a u32 c
Plus1(c) ==
    LET low == c.lo + 1
    IN [hi |-> (c.hi + (low \div U16)) % U16, lo |-> low % U16]

\* C2: an UpdateContext call on the Local or Network writer publishes to its
\* shared-memory entry and makes one round of signals if and only if it is the
\* first call on that writer or its argument differs from the argument of the
\* call before it; otherwise it changes nothing in shared memory and signals
\* nobody.
C2_PublishIffFirstOrChanged ==
    [][\A w \in {"local", "network"} :
          WriterCall(call', w) =>
              LET e == EntryOf(w)
                  before == timeSharedMemory[e]
                  after == timeSharedMemory'[e]
              IN IF ~prevArg[w].has \/ prevArg[w].value # call'.arg
                 THEN /\ after.updateCount = Plus1(before.updateCount)
                      /\ after.context[Bit0(after.updateCount)] = call'.arg
                      /\ publishes'[e] = publishes[e] + 1
                      /\ rounds'[w] = rounds[w] + 1
                 ELSE /\ timeSharedMemory' = timeSharedMemory
                      /\ publishes' = publishes
                      /\ rounds' = rounds]_vars

\* two calls with the all-zero context on a fresh local writer: one publish,
\* one round of signals
C2_Witness ==
    /\ WriterCall(call, "local")
    /\ call.arg = ZeroContext
    /\ call.outcome = "returned"
    /\ prevArg["local"] = Some(ZeroContext)
    /\ publishes["localSystemClockContextEntry"] = 1
    /\ rounds["local"] = 1

DirectPublish(c) == c.op = "Publish"

\* C3: a direct publish of v on an entry whose counter is c ends with the
\* counter at c + 1 (as a u32), slot (c + 1) & 1 holding v and slot c & 1
\* unchanged, also when v is the value already published.
C3_DirectPublishAdvancesAndFlips ==
    [][DirectPublish(call') =>
          LET before == timeSharedMemory[call'.entry]
              after == timeSharedMemory'[call'.entry]
              c == before.updateCount
          IN /\ after.updateCount = Plus1(c)
             /\ after.context[Bit0(Plus1(c))] = call'.arg
             /\ after.context[Bit0(c)] = before.context[Bit0(c)]
             /\ Bit0(Plus1(c)) # Bit0(c)]_vars

\* the same nonzero value published twice in a row on one entry
C3_Witness ==
    /\ DirectPublish(call)
    /\ call.arg # ZeroContext
    /\ publishes[call.entry] = 2
    /\ timeSharedMemory[call.entry].context[0] = call.arg
    /\ timeSharedMemory[call.entry].context[1] = call.arg

\* C5 as stated: the counter of an entry after a publish is strictly greater
\* than the counter before it, for every sequence of publishes.
C5_CounterStrictlyIncreases ==
    [][\A e \in Entries :
          publishes'[e] = publishes[e] + 1 =>
              Less32(timeSharedMemory[e].updateCount, timeSharedMemory'[e].updateCount)]_vars

\* C5 amended: the counter of an entry after a publish is the counter before
\* it plus one modulo 2^32: strictly greater, except that 2^32 - 1 is followed
\* by 0.
C5_CounterIncreasesUntilWrap ==
    [][\A e \in Entries :
          publishes'[e] = publishes[e] + 1 =>
              LET c == timeSharedMemory[e].updateCount
                  n == timeSharedMemory'[e].updateCount
              IN /\ (c # Max32 => Less32(c, n))
                 /\ (c = Max32 => n = Zero32)
                 /\ (\A e2 \in Entries \ {e} : publishes'[e2] = publishes[e2])]_vars

\* an entry that went from 2^32 - 1 over 0 to 1
C5_Witness ==
    \E e \in Entries :
        /\ publishes[e] = 2
        /\ timeSharedMemory[e].updateCount = [hi |-> 0, lo |-> 1]

CurrentSlot == timeSharedMemory[SeqEntry].context[Bit0(timeSharedMemory[SeqEntry].updateCount)]

\* the value of the most recently completed publish, the initial content of
\* the slots when there was none
LastPublished == IF call = NoCall THEN ZeroContext ELSE call.arg

\* C14: at every step of a publish (before the slot write, between the slot
\* write and the counter update, after the counter update) and after any
\* number of completed publishes, the slot selected by the parity of the stored
\* counter holds the value of the most recently completed publish: the writer
\* only writes the slot the counter does not select, and the counter is
\* updated only after the slot write is complete.
C14_CurrentSlotHoldsLastPublish ==
    /\ [](CurrentSlot = LastPublished)
    /\ [][LET before == timeSharedMemory[SeqEntry]
              after == timeSharedMemory'[SeqEntry]
          IN /\ after.context[Bit0(before.updateCount)]
                    = before.context[Bit0(before.updateCount)]
             /\ (after.updateCount # before.updateCount =>
                    /\ writer.todo = {}
                    /\ before.context[Bit0(after.updateCount)] = writer.newValue
                    /\ after.context = before.context)]_vars

\* the second publish halfway through its slot write, the first one's value
\* still selected
C14_Witness ==
    /\ writer.pc = "store"
    /\ writer.todo # {}
    /\ writer.todo # Fields
    /\ publishes[SeqEntry] = 1
    /\ call # NoCall
    /\ call.arg # ZeroContext
    /\ writer.newValue # call.arg
    /\ timeSharedMemory[SeqEntry].context[SlotIndex(writer.newCount)] # ZeroContext
    /\ CurrentSlot = call.arg

\* the thread that takes the step
Stepping(t) == threads'[t] # threads[t]

\* C15: the shared-memory channels are independent: a publish on the local
\* channel leaves the counter and both slots of the network channel and the
\* automatic-correction flag channel unchanged, a publish on the network
\* channel leaves the local channel and the flag channel unchanged, under
\* every interleaving of the statements of publishes on the two channels.
C15_ChannelsIndependent ==
    [][\A t \in Threads :
          Stepping(t) =>
              /\ \A other \in Entries \ {EntryOf(threads'[t].w)} :
                     /\ timeSharedMemory'[other] = timeSharedMemory[other]
                     /\ publishes'[other] = publishes[other]
              /\ timeSharedMemory'.automaticCorrectionEnabledEntry
                     = timeSharedMemory.automaticCorrectionEnabledEntry]_vars

\* a call on the Local writer and a call on the Network writer from two
\* threads, each channel holding its own value under its own counter
C15_Witness ==
    /\ \A t \in Threads : threads[t].pc = "done"
    /\ \E t \in Threads : threads[t].w = "local"
    /\ \E t \in Threads : threads[t].w = "network"
    /\ LET l == timeSharedMemory.localSystemClockContextEntry
           n == timeSharedMemory.networkSystemClockContextEntry
       IN /\ l.updateCount = Plus1(CountOne)
          /\ n.updateCount = Plus1(CountOne)
          /\ l.context[Bit0(l.updateCount)] # ZeroContext
          /\ n.context[Bit0(n.updateCount)] # ZeroContext
          /\ n.context[Bit0(n.updateCount)] # l.context[Bit0(l.updateCount)]
          /\ \E t \in Threads : threads[t].newContext = l.context[Bit0(l.updateCount)]
                                 /\ threads[t].w = "local"

\* C16: EphemeralNetworkSystemClockContextWriter::UpdateContext never modifies
\* a shared-memory channel (the counters and slots of the local and network
\* channels are unchanged by every call), and it signals the subscribers
\* exactly when its deduplication gate reports a change: on the first call
\* and on a call whose argument differs from the previous call's.
C16_EphemeralSignalsWithoutPublish ==
    [][WriterCall(call', "ephemeral") =>
          /\ timeSharedMemory' = timeSharedMemory
          /\ publishes' = publishes
          /\ \A w \in Writers \ {"ephemeral"} : rounds'[w] = rounds[w]
          /\ IF ~prevArg["ephemeral"].has \/ prevArg["ephemeral"].value # call'.arg
             THEN rounds'["ephemeral"] = rounds["ephemeral"] + 1
             ELSE rounds'["ephemeral"] = rounds["ephemeral"]]_vars

\* two rounds of signals from the ephemeral writer, the shared memory as it
\* was before them
C16_Witness ==
    /\ WriterCall(call, "ephemeral")
    /\ rounds["ephemeral"] = 2
    /\ call.arg # ZeroContext
    /\ writerContext["ephemeral"] = Some(call.arg)
    /\ \E start \in StartCounts : timeSharedMemory = Layout(start)

\* C20 as stated: UpdateContext on each of the three writers returns a
\* defined success Result on every path, the no-change path and the changed
\* path alike; it never returns an error or an unspecified result.
C20_UpdateContextReturnsSuccess ==
    IsCall(call, "UpdateContext") =>
        /\ call.outcome = "returned"
        /\ call.ret = Success
        /\ ~halted

\* C17: under any interleaving of concurrent GetRawTimePoint() calls from
\* several threads on one StandardSteadyClockCore the read-compare-write of
\* the cache is atomic: cachedValue never decreases and, whenever no call is
\* inside the critical section (after every call has completed), it equals the
\* maximum of its initial value and all source_time + rtcOffset values
\* computed so far.
C17_CacheIsRunningMaximum ==
    /\ [][cachedValue' >= cachedValue]_vars
    /\ [](mutex["standard"] = 0 => cachedValue = computedMax)

\* a call that computed less than the cached maximum returned while another
\* thread waits for the mutex
C17_Witness ==
    /\ call.op = "GetRawTimePoint"
    /\ call.ret < cachedValue
    /\ call.ret > 0
    /\ cachedValue = computedMax
    /\ \E t \in Threads : t # call.thread /\ mutex["standard"] = t

\* the threads that have called UpdateContext on writer w
CallersOf(w) == {t \in Threads : threads[t].pc # "idle" /\ threads[t].w = w}

AllDone == \A t \in Threads : threads[t].pc = "done"

\* C18 as stated: when threads call UpdateContext at the same time on the same
\* Local or Network writer with equal contexts that differ from the writer's
\* stored context, the deduplication gate lets one of them through: once the
\* calls have returned, one publish and one round of signals have been made
\* and the channel counter has advanced by one, under every interleaving.
C18_ConcurrentEqualCallsPublishOnce ==
    \A w \in Publishers :
        (/\ AllDone
         /\ Cardinality(CallersOf(w)) >= 2
         /\ \E x \in Contexts \ {ZeroContext} :
                \A t \in CallersOf(w) : threads[t].newContext = x)
        => /\ publishes[EntryOfWriter(w)] = 2
           /\ rounds[w] = 2
           /\ timeSharedMemory[EntryOfWriter(w)].updateCount = Inc32(CountOne)

\* the slot the stored counter of writer w's entry selects
SelectedSlot(w) ==
    LET entry == timeSharedMemory[EntryOfWriter(w)]
    IN entry.context[Bit0(entry.updateCount)]

\* C19 as stated: after any sequence of serialized UpdateContext calls on the
\* Local (Network) writer containing at least one call, and with no other
\* publisher on the channel, the slot selected by the counter's parity equals
\* the writer's stored context, which equals the argument of the most recent
\* call, and the channel's counter equals the number of calls that passed the
\* deduplication gate.
C19_CounterEqualsPassedCalls ==
    \A w \in Publishers :
        prevArg[w].has =>
            /\ SelectedSlot(w) = writerContext[w].value
            /\ writerContext[w] = Some(prevArg[w].value)
            /\ timeSharedMemory[EntryOfWriter(w)].updateCount = passed[w]

\* C19 amended: the same, the channel's counter being the number of calls
\* that passed the deduplication gate modulo 2^32.
C19_CounterEqualsPassedCallsMod32 ==
    \A w \in Publishers :
        prevArg[w].has =>
            /\ SelectedSlot(w) = writerContext[w].value
            /\ writerContext[w] = Some(prevArg[w].value)
            /\ timeSharedMemory[EntryOfWriter(w)].updateCount
                   = [hi |-> passed[w].hi % U16, lo |-> passed[w].lo]

\* a writer 2^32 + 1 calls past the gate, its counter at 1
C19_Witness ==
    \E w \in Publishers :
        /\ passed[w] = [hi |-> U16, lo |-> 1]
        /\ timeSharedMemory[EntryOfWriter(w)].updateCount = CountOne
        /\ SelectedSlot(w) = prevArg[w].value
        /\ SelectedSlot(w) # ZeroContext

====
